---- MODULE Spec2Model ----
(***************************************************************************)
(* PageRank (src/Uncertainty/pagerank/pagerank.py): transition_model,      *)
(* sample_pagerank, iterate_pagerank and get_sum.                          *)
(*                                                                         *)
(* Numbers.  The program computes in binary floating point.  Here a real x *)
(* is the integer nearest to x * Scale (fixed point, ScaleDigits decimal   *)
(* digits), and every division rounds to the nearest unit, as every        *)
(* floating-point division rounds to the nearest representable value.  A   *)
(* damping factor is kept as the fraction num/den it is written as.        *)
(*                                                                         *)
(* Pages.  A corpus is a dict; Python iterates a dict in insertion order.  *)
(* A page is named by its position in that order, so a corpus of N pages   *)
(* is a tuple of N link sets and "for page in corpus" visits 1, 2, .., N.  *)
(* Enumerating every tuple enumerates every corpus in every order.         *)
(***************************************************************************)
EXTENDS Integers, Sequences, FiniteSets, TLC

VARIABLES op, corpus, damping_factor, page, n, i, d, dists,
          distribution, old_distribution, change, pc, outcome

vars == <<op, corpus, damping_factor, page, n, i, d, dists,
          distribution, old_distribution, change, pc, outcome>>

\* Largest corpus, largest sample count, digits of the fixed-point numbers.
MaxPages == 4
MaxSamples == 3
ScaleDigits == 7

Scale == 10 ^ ScaleDigits
\* 1e-6, the tolerance within which two floating-point results count as equal.
Eps == 10 ^ (ScaleDigits - 6)
\* The literal 0.001 of the convergence test.
Threshold == Scale \div 1000

DAMPING == [num |-> 17, den |-> 20]
Dampings == {DAMPING, [num |-> 1, den |-> 2]}

\* What crawl returns: every link is a page of the corpus, no page links to itself.
ValidCorpus(c) ==
    \A p \in DOMAIN c : c[p] \subseteq DOMAIN c /\ p \notin c[p]

Corpora ==
    UNION { { c \in [1..N -> SUBSET (1..N)] : ValidCorpus(c) } : N \in 0..MaxPages }

Abs(x) == IF x < 0 THEN -x ELSE x

\* a / b rounded to the nearest unit, a >= 0, b > 0.
Div(a, b) == (a + b \div 2) \div b

RECURSIVE SumUpTo(_, _)
SumUpTo(f, k) == IF k = 0 THEN 0 ELSE SumUpTo(f, k - 1) + f[k]

\* sum(d.values())
Total(f) == SumUpTo(f, Len(f))

\* Slip: the share of the random jump is not divided among the pages.
BaseProbabilityUndivided(damping, num_pages) ==
    Div((damping.den - damping.num) * Scale, damping.den)

\* (1 - damping_factor) / num_pages
BaseProbability(damping, num_pages) ==
    Div((damping.den - damping.num) * Scale, damping.den * num_pages)

\* Slip: the links share 1 instead of damping_factor.
LinkProbabilityUndamped(damping, num_links) == Div(Scale, num_links)

\* damping_factor / num_links
LinkProbability(damping, num_links) ==
    Div(damping.num * Scale, damping.den * num_links)

\* damping_factor * x
Damped(damping, x) == Div(damping.num * x, damping.den)

NoDistribution == << >>

(***************************************************************************)
(* transition_model                                                        *)
(***************************************************************************)

\* corpus[page] raises KeyError when page is not a key.
KeyError(c, pg) == pg \notin DOMAIN c

\* for key in corpus: d[key] = (1 - damping_factor) / num_pages
AssignBase(c, damping) ==
    [key \in DOMAIN c |-> BaseProbability(damping, Len(c))]

\* Slip: the second loop runs over corpus instead of links.
AddLinksToAll(dict, links, damping) ==
    [key \in DOMAIN dict |->
        dict[key] + LinkProbability(damping, Cardinality(links))]

\* for key in links: d[key] += damping_factor / num_links
AddLinks(dict, links, damping) ==
    [key \in DOMAIN dict |->
        IF key \in links
        THEN dict[key] + LinkProbability(damping, Cardinality(links))
        ELSE dict[key]]

\* for key in corpus: d[key] = 1.0 / num_pages
AssignUniform(c) ==
    [key \in DOMAIN c |-> Div(Scale, Len(c))]

\* The body of transition_model for a page that is a key of the corpus.
TransitionModel(c, pg, damping) ==
    LET links == c[pg]
    IN  IF links # {}
        THEN AddLinks(AssignBase(c, damping), links, damping)
        ELSE AssignUniform(c)

\* transition_model(corpus, page, damping_factor) is called.
TransitionCall ==
    /\ pc = "idle"
    /\ op' = "transition_model"
    /\ corpus' \in Corpora
    /\ damping_factor' \in Dampings
    /\ page' \in 1..MaxPages
    /\ pc' = "start"
    /\ UNCHANGED <<n, i, d, dists, distribution, old_distribution, change,
                   outcome>>

TransitionBody ==
    /\ op = "transition_model" /\ pc = "start"
    /\ IF KeyError(corpus, page)
       THEN /\ outcome' = "KeyError"
            /\ d' = d
       ELSE /\ outcome' = "returned"
            /\ d' = TransitionModel(corpus, page, damping_factor)
    /\ pc' = "done"
    /\ UNCHANGED <<op, corpus, damping_factor, page, n, i, dists,
                   distribution, old_distribution, change>>

(***************************************************************************)
(* sample_pagerank                                                         *)
(***************************************************************************)

\* random.choices(list(corpus.keys())) indexes an empty list: IndexError.
EmptyPopulation(c) == Len(c) = 0

\* Slip: the old average is weighted by i instead of i - 1.
RunningAverageOffByOne(dict, current_dist, step) ==
    [_page \in DOMAIN dict |->
        Div(step * dict[_page] + current_dist[_page], step)]

\* d[_page] = (((i - 1) * d[_page]) + current_dist[_page]) / i, for _page in d
RunningAverage(dict, current_dist, step) ==
    [_page \in DOMAIN dict |->
        Div((step - 1) * dict[_page] + current_dist[_page], step)]

\* random.choices(population, weights): a page of positive weight.
WeightedChoices(dict) == { p \in DOMAIN dict : dict[p] > 0 }

\* sample_pagerank(corpus, damping_factor, n) is called.
SampleCall ==
    /\ pc = "idle"
    /\ op' = "sample_pagerank"
    /\ corpus' \in Corpora
    /\ damping_factor' \in Dampings
    /\ n' \in 1..MaxSamples
    /\ pc' = "start"
    /\ UNCHANGED <<page, i, d, dists, distribution, old_distribution, change,
                   outcome>>

\* Lines 93-94: the zeroed dictionary and the uniformly chosen first page.
SampleStart ==
    /\ op = "sample_pagerank" /\ pc = "start"
    /\ IF EmptyPopulation(corpus)
       THEN /\ outcome' = "IndexError"
            /\ pc' = "done"
            /\ UNCHANGED <<d, page, i>>
       ELSE /\ d' = [key \in DOMAIN corpus |-> 0]
            /\ page' \in DOMAIN corpus
            /\ i' = 1
            /\ pc' = "loop"
            /\ outcome' = outcome
    /\ UNCHANGED <<op, corpus, damping_factor, n, dists,
                   distribution, old_distribution, change>>

\* One pass of "for i in range(1, n)"; dists records every current_dist.
SampleStep ==
    /\ op = "sample_pagerank" /\ pc = "loop" /\ i < n
    /\ LET current_dist == TransitionModel(corpus, page, damping_factor)
           updated == RunningAverage(d, current_dist, i)
       IN  /\ d' = updated
           /\ dists' = Append(dists, current_dist)
           /\ IF Total(updated) <= 0
              THEN /\ outcome' = "ValueError"
                   /\ pc' = "done"
                   /\ UNCHANGED <<page, i>>
              ELSE /\ page' \in WeightedChoices(updated)
                   /\ i' = i + 1
                   /\ UNCHANGED <<pc, outcome>>
    /\ UNCHANGED <<op, corpus, damping_factor, n,
                   distribution, old_distribution, change>>

SampleReturn ==
    /\ op = "sample_pagerank" /\ pc = "loop" /\ i >= n
    /\ pc' = "done"
    /\ outcome' = "returned"
    /\ UNCHANGED <<op, corpus, damping_factor, page, n, i, d, dists,
                   distribution, old_distribution, change>>

(***************************************************************************)
(* iterate_pagerank and get_sum                                            *)
(***************************************************************************)

RECURSIVE GetSumUpTo(_, _, _, _)
GetSumUpTo(c, dist, pg, k) ==
    IF k = 0
    THEN 0
    ELSE GetSumUpTo(c, dist, pg, k - 1)
         + (IF pg \in c[k] THEN Div(dist[k], Cardinality(c[k])) ELSE 0)

\* get_sum: the shares of the pages that link to pg, read from dist.
GetSum(c, dist, pg) == GetSumUpTo(c, dist, pg, Len(c))

\* Slip: the quotient is computed per key, so never for an empty corpus.
ZeroDivisionErrorNever(c) == FALSE

\* 1.0 / total_pages is evaluated before fromkeys is called: ZeroDivisionError.
ZeroDivisionError(c) == Len(c) = 0

\* Slip: abs left out.
SignificantIncrease(old, new) == old - new > Threshold

\* Slip: the threshold left out.
SignificantAlways(old, new) == Abs(old - new) >= 0

\* abs(old_distribution[page] - distribution[page]) > 0.001
Significant(old, new) == Abs(old - new) > Threshold

\* ((1 - damping_factor) / total_pages) + (damping_factor * get_sum(...))
NewRank(c, damping, dist, pg) ==
    BaseProbability(damping, Len(c)) + Damped(damping, GetSum(c, dist, pg))

\* iterate_pagerank(corpus, damping_factor) is called.
IterateCall ==
    /\ pc = "idle"
    /\ op' = "iterate_pagerank"
    /\ corpus' \in Corpora
    /\ damping_factor' \in Dampings
    /\ pc' = "start"
    /\ UNCHANGED <<page, n, i, d, dists, distribution, old_distribution,
                   change, outcome>>

\* Lines 118-120.
IterateStart ==
    /\ op = "iterate_pagerank" /\ pc = "start"
    /\ IF ZeroDivisionError(corpus)
       THEN /\ outcome' = "ZeroDivisionError"
            /\ pc' = "done"
            /\ UNCHANGED <<distribution, change>>
       ELSE /\ distribution' = [key \in DOMAIN corpus |-> Div(Scale, Len(corpus))]
            /\ change' = TRUE
            /\ pc' = "while"
            /\ outcome' = outcome
    /\ UNCHANGED <<op, corpus, damping_factor, page, n, i, d, dists,
                   old_distribution>>

\* Lines 122-124: "while change" is entered and the snapshot is taken; over
\* an empty dictionary the for loop is through at once.
IterateWhile ==
    /\ op = "iterate_pagerank" /\ pc = "while" /\ change
    /\ change' = FALSE
    /\ old_distribution' = distribution
    /\ page' = 1
    /\ pc' = (IF Len(corpus) = 0 THEN "while" ELSE "for")
    /\ UNCHANGED <<op, corpus, damping_factor, n, i, d, dists, distribution,
                   outcome>>

\* Lines 126-132: one pass of "for page in corpus".  get_sum is handed
\* distribution, the dictionary this loop assigns into.
IteratePage ==
    /\ op = "iterate_pagerank" /\ pc = "for"
    /\ LET new == NewRank(corpus, damping_factor, distribution, page)
       IN  /\ distribution' = [distribution EXCEPT ![page] = new]
           /\ change' = (change \/ Significant(old_distribution[page], new))
    /\ IF page < Len(corpus)
       THEN page' = page + 1 /\ pc' = pc
       ELSE page' = page /\ pc' = "while"
    /\ UNCHANGED <<op, corpus, damping_factor, n, i, d, dists,
                   old_distribution, outcome>>

\* Line 134.
IterateReturn ==
    /\ op = "iterate_pagerank" /\ pc = "while" /\ ~change
    /\ pc' = "done"
    /\ outcome' = "returned"
    /\ UNCHANGED <<op, corpus, damping_factor, page, n, i, d, dists,
                   distribution, old_distribution, change>>

(***************************************************************************)
(* Specifications                                                          *)
(***************************************************************************)

\* No call has been made yet.
Init ==
    /\ op = "none"
    /\ corpus = << >>
    /\ damping_factor = DAMPING
    /\ page = 0 /\ n = 0 /\ i = 0
    /\ d = NoDistribution /\ dists = << >>
    /\ distribution = NoDistribution /\ old_distribution = NoDistribution
    /\ change = FALSE
    /\ pc = "idle" /\ outcome = "none"

Next ==
    \/ TransitionCall
    \/ TransitionBody
    \/ SampleCall
    \/ SampleStart
    \/ SampleStep
    \/ SampleReturn
    \/ IterateCall
    \/ IterateStart
    \/ IterateWhile
    \/ IteratePage
    \/ IterateReturn

Spec == Init /\ [][Next]_vars

NextIterate ==
    \/ IterateCall
    \/ IterateStart
    \/ IterateWhile
    \/ IteratePage
    \/ IterateReturn

\* iterate_pagerank alone.  The interpreter runs a call that has been made:
\* each step of the body that can be taken is taken.
FairIterate ==
    /\ Init
    /\ [][NextIterate]_vars
    /\ WF_vars(IterateStart)
    /\ WF_vars(IterateWhile)
    /\ WF_vars(IteratePage)
    /\ WF_vars(IterateReturn)

(***************************************************************************)
(* Properties                                                              *)
(***************************************************************************)

Returned(call) == op = call /\ pc = "done" /\ outcome = "returned"

Near(x, y) == Abs(x - y) <= Eps

\* One synchronous round: every new value is computed from snapshot alone.
SyncRound(c, damping, snapshot) ==
    [p \in DOMAIN c |->
        Div((damping.den - damping.num) * Scale, damping.den * Len(c))
        + Div(damping.num * GetSum(c, snapshot, p), damping.den)]

\* C1: the distribution iterate_pagerank returns sums to 1, for every valid
\* non-empty corpus, corpora with dangling pages included.
C1_IterateSumsToOne ==
    Returned("iterate_pagerank") => Near(Total(distribution), Scale)

\* C2: the distribution sample_pagerank returns has one entry per page of the
\* corpus and sums to 1, for every n >= 1, n = 1 included.
C2_SampleSumsToOne ==
    Returned("sample_pagerank") =>
        /\ DOMAIN d = DOMAIN corpus
        /\ Near(Total(d), Scale)

\* C3: the values transition_model returns are non-negative and sum to 1,
\* for a page with links and for a dangling page.
C3_TransitionIsDistribution ==
    Returned("transition_model") =>
        /\ \A p \in DOMAIN d : d[p] >= 0
        /\ Near(Total(d), Scale)

C3_Witness ==
    /\ Returned("transition_model")
    /\ Len(corpus) = 3
    /\ corpus[page] = {}
    /\ damping_factor = DAMPING

\* What C4 says transition_model returns.
ReferenceTransition(c, pg, damping) ==
    [p \in DOMAIN c |->
        IF c[pg] # {}
        THEN Div((damping.den - damping.num) * Scale, damping.den * Len(c))
             + (IF p \in c[pg]
                THEN Div(damping.num * Scale, damping.den * Cardinality(c[pg]))
                ELSE 0)
        ELSE Div(Scale, Len(c))]

\* C4: transition_model returns (1 - damping)/N for every page plus
\* damping/|corpus[page]| for the linked pages, and 1/N for every page when
\* the page is dangling: 0.5 and 0.5 for {A: {}, B: {A}} and page A.
C4_TransitionEqualsReference ==
    Returned("transition_model") =>
        /\ d = ReferenceTransition(corpus, page, damping_factor)
        /\ (corpus = << {}, {1} >> /\ page = 1
               => d = << Scale \div 2, Scale \div 2 >>)

C4_Witness ==
    /\ Returned("transition_model")
    /\ Len(corpus) = 3
    /\ Cardinality(corpus[page]) = 2
    /\ d[page] < d[(page % 3) + 1]

\* C5 as claimed: one more synchronous round on the returned distribution
\* changes no value by more than 0.001.
C5_FixedPoint ==
    Returned("iterate_pagerank") =>
        \A p \in DOMAIN distribution :
            Abs(SyncRound(corpus, damping_factor, distribution)[p]
                - distribution[p]) <= Threshold

\* C5 as amended: the returned distribution is the outcome of a round that
\* changed no value by more than 0.001 from the snapshot it started with.
C5_LastRoundWithinThreshold ==
    Returned("iterate_pagerank") =>
        \A p \in DOMAIN distribution :
            Abs(distribution[p] - old_distribution[p]) <= Threshold

C5_Witness ==
    /\ Returned("iterate_pagerank")
    /\ distribution # old_distribution
    /\ \E p \in DOMAIN distribution :
          Abs(SyncRound(corpus, damping_factor, distribution)[p]
              - distribution[p]) > Threshold

RECURSIVE Orbit(_, _, _)
Orbit(c, ps, k) ==
    IF k = 0 THEN ps ELSE Orbit(c, ps \cup UNION { c[p] : p \in ps }, k - 1)

\* One directed cycle through every page.
SingleCycle(c) ==
    /\ Len(c) >= 2
    /\ \A p \in DOMAIN c : Cardinality(c[p]) = 1
    /\ \A p \in DOMAIN c : Cardinality({ q \in DOMAIN c : p \in c[q] }) = 1
    /\ Orbit(c, {1}, Len(c)) = DOMAIN c

\* C6: on a single directed cycle of N pages iterate_pagerank with damping
\* 0.85 returns 1/N for every page, 0.5 each when N = 2.
C6_CycleIsUniform ==
    (Returned("iterate_pagerank") /\ damping_factor = DAMPING
        /\ SingleCycle(corpus)) =>
        \A p \in DOMAIN distribution :
            /\ Near(distribution[p], Div(Scale, Len(corpus)))
            /\ (Len(corpus) = 2 => distribution[p] = Scale \div 2)

C6_Witness ==
    /\ Returned("iterate_pagerank")
    /\ damping_factor = DAMPING
    /\ corpus = << {2}, {3}, {1} >>

InvalidInput ==
    \/ op = "transition_model" /\ page \notin DOMAIN corpus
    \/ op \in {"sample_pagerank", "iterate_pagerank"} /\ Len(corpus) = 0

Errors == {"KeyError", "IndexError", "ZeroDivisionError"}

\* C7: on invalid input (a page that is no key, for transition_model; an
\* empty corpus, for sample_pagerank and iterate_pagerank) the first step of
\* the call ends it in an error, and no distribution is ever returned.
C7_InvalidInputFails ==
    (InvalidInput /\ pc # "start") =>
        /\ pc = "done"
        /\ outcome \in Errors
        /\ d = NoDistribution
        /\ distribution = NoDistribution

C7_Witness ==
    /\ op = "sample_pagerank"
    /\ n = MaxSamples
    /\ Len(corpus) = 0
    /\ pc = "done"
    /\ outcome = "IndexError"

\* C8: every round of iterate_pagerank is synchronous: when the for loop is
\* through, the values it assigned are those computed from the snapshot taken
\* at the start of the round.
C8_RoundIsSynchronous ==
    (op = "iterate_pagerank" /\ pc = "while"
        /\ old_distribution # NoDistribution) =>
        distribution = SyncRound(corpus, damping_factor, old_distribution)

RECURSIVE SumOfDists(_, _, _)
SumOfDists(ds, p, k) ==
    IF k = 0 THEN 0 ELSE SumOfDists(ds, p, k - 1) + ds[k][p]

\* C9: after update step i of sample_pagerank the running average is the
\* mean of the i transition distributions of steps 1..i; it sums to 1, every
\* entry is strictly positive, and the weighted choice has a non-zero total.
C9_RunningAverageIsMean ==
    (op = "sample_pagerank" /\ Len(dists) >= 1) =>
        /\ \A p \in DOMAIN d :
              /\ Near(d[p], Div(SumOfDists(dists, p, Len(dists)), Len(dists)))
              /\ d[p] > 0
        /\ Near(Total(d), Scale)
        /\ outcome # "ValueError"
        /\ Len(dists) = i - 1

C9_Witness ==
    /\ op = "sample_pagerank"
    /\ Len(dists) = 2
    /\ dists[1] # dists[2]
    /\ pc = "done"

\* C10: for every valid non-empty corpus the convergence loop of
\* iterate_pagerank terminates and a distribution is returned.
C10_Terminates ==
    (op = "iterate_pagerank" /\ pc = "start" /\ Len(corpus) > 0)
        ~> Returned("iterate_pagerank")

C10_Witness ==
    /\ Returned("iterate_pagerank")
    /\ \E p \in DOMAIN distribution :
          Abs(distribution[p] - Div(Scale, Len(corpus))) > 10 * Threshold

====
